---- MODULE Spec2Model ----
(***************************************************************************)
(* The Cain optimiser of src/src/opt/cain.rs: the CainBuilder, the state   *)
(* of a Cain, one optimisation step (part_step, update_batch_size,         *)
(* update_curvature, step) and the run loop optimise_from with its step    *)
(* callbacks.                                                              *)
(*                                                                         *)
(* f32 values are held in fixed point: the integer x stands for x/Scale,   *)
(* every product, quotient and root is rounded to the nearest unit.  The   *)
(* learning rate and the parameter vector are held in units of 1e-4 (the   *)
(* default initial learning rate), every other f32 in units of 1.  The two *)
(* places where the code can divide by zero (the hold-one-out norm in      *)
(* update_batch_size and the momentum norm in step) carry the IEEE result  *)
(* (NaN, +inf, -inf) as a tagged value up to the max/min that absorbs it.  *)
(***************************************************************************)
EXTENDS Integers, Sequences, FiniteSets

\* ------------------------------------------------------------------ bounds
\* graph.num_params(): the parameter count of the graph under optimisation
NumParams == 2
\* how many builder setters a client calls before finish()
MaxBuilderCalls == 2
\* how many step callbacks a client registers
MaxCallbacks == 2
\* how many steps the run loop is followed for (the loop itself has no bound)
MaxSteps == 2

\* ------------------------------------------------------------- f32 values
Scale == 2^10

\* the f32 literal a/b
Lit(a, b) == (2 * a * Scale + b) \div (2 * b)

Abs(x) == IF x < 0 THEN -x ELSE x

\* f32 a * b
Mul(a, b) == (a * b + Scale \div 2) \div Scale

\* f32 a / b for b # 0
Div(a, b) ==
  IF b > 0 THEN (2 * a * Scale + b) \div (2 * b)
           ELSE (2 * (-a) * Scale + (-b)) \div (2 * (-b))

\* f32::max and f32::min on finite values
Max(a, b) == IF a >= b THEN a ELSE b
Min(a, b) == IF a <= b THEN a ELSE b

\* f32::floor as u64 / usize of a non-negative value
Floor(x) == x \div Scale

\* usize as f32
FromInt(k) == k * Scale

RECURSIVE ISqrt(_, _, _)
\* the largest r in lo..hi with r*r <= n
ISqrt(n, lo, hi) ==
  IF lo >= hi THEN lo
  ELSE LET mid == (lo + hi + 1) \div 2
       IN IF mid * mid <= n THEN ISqrt(n, mid, hi) ELSE ISqrt(n, lo, mid - 1)

\* f32::sqrt of a non-negative value
Sqrt(x) ==
  LET n == x * Scale
      r == ISqrt(n, 0, 46340)
  IN IF n - r * r > r THEN r + 1 ELSE r

RECURSIVE PowI(_, _)
\* f32::powi(x, k) for k >= 0
PowI(x, k) == IF k = 0 THEN Scale ELSE Mul(x, PowI(x, k - 1))

RECURSIVE PowFrac(_, _, _)
\* x^(f/Scale) for 0 <= f < Scale, r the last root taken, w the weight of the
\* next binary digit of f
PowFrac(r, f, w) ==
  IF f = 0 \/ w = 0 THEN Scale
  ELSE LET s == Sqrt(r)
       IN IF f >= w THEN Mul(s, PowFrac(s, f - w, w \div 2))
                    ELSE PowFrac(s, f, w \div 2)

\* f32::powf(x, e) for x >= 0
PowF(x, e) ==
  IF e = 0 THEN Scale
  ELSE LET a == Abs(e)
           p == Mul(PowI(x, a \div Scale), PowFrac(x, a % Scale, Scale \div 2))
       IN IF e > 0 THEN p ELSE Div(Scale, p)

\* IEEE values of a quotient whose divisor may be zero
Fin(x) == <<"fin", x>>
PosInf == <<"inf", 0>>
NegInf == <<"-inf", 0>>
NaN == <<"nan", 0>>

\* f32 a / b, any b
XDiv(a, b) ==
  IF b # 0 THEN Fin(Div(a, b))
  ELSE IF a > 0 THEN PosInf ELSE IF a < 0 THEN NegInf ELSE NaN

\* f32 a + b where a, b are finite, +inf or NaN
XAdd(a, b) ==
  IF a[1] = "nan" \/ b[1] = "nan" THEN NaN
  ELSE IF a[1] = "inf" \/ b[1] = "inf" THEN PosInf
  ELSE Fin(a[2] + b[2])

\* a.max(lo).min(hi): f32::max and f32::min return the other operand on NaN
XClamp(a, lo, hi) ==
  IF a[1] = "nan" THEN Min(lo, hi)
  ELSE IF a[1] = "inf" THEN hi
  ELSE IF a[1] = "-inf" THEN Min(lo, hi)
  ELSE Min(Max(a[2], lo), hi)

\* ------------------------------------------------------------- vec_math
RECURSIVE Tuple(_, _)
\* the vector <<f[1], ..., f[n]>>
Tuple(f, n) == IF n = 0 THEN <<>> ELSE Append(Tuple(f, n - 1), f[n])

Zeros(n) == Tuple([i \in 1..n |-> 0], n)

RECURSIVE SumTo(_, _)
SumTo(f, n) == IF n = 0 THEN 0 ELSE SumTo(f, n - 1) + f[n]

\* VecMath::dot
Dot(a, b) == SumTo(Tuple([i \in 1..Len(a) |-> Mul(a[i], b[i])], Len(a)), Len(a))

\* VecMath::scale
ScaleVec(a, s) == Tuple([i \in 1..Len(a) |-> Mul(a[i], s)], Len(a))

\* VecMath::add
AddVec(a, b) == Tuple([i \in 1..Len(a) |-> a[i] + b[i]], Len(a))


\* ------------------------------------------------------------ inputs
\* usize::MAX, held as the largest integer of the model
UsizeMax == 2147483647

\* the values a client passes to the builder's setters
NumSubbatchesVals == {1, 3}
MomentumVals == {Lit(1, 2)}
AggressionVals == {0}
TargetErrVals == {Lit(1, 2)}
IncreaseDampingVals == {Lit(1, 8)}
DecreaseDampingVals == {Lit(1, 16)}
RateAdaptVals == {Lit(5, 4)}
MaxEvalVals == {64}
MinSubbatchVals == {3}
LearningRateVals == {FromInt(10)}
SubbatchSizeVals == {Lit(5, 2)}

\* a step callback returns Continue until data.step_count has reached k, and
\* Stop from then on
StopAfter == {1, 2}

\* the per-sample gradients the graph's backprop yields: the first coordinate
\* a, the others b
GradShapes == {<<0, 0>>, <<1, -1>>, <<-1, 1>>}
GradVecs ==
  {Tuple([i \in 1..NumParams |-> FromInt(IF i = 1 THEN s[1] ELSE s[2])], NumParams) : s \in GradShapes}
\* the per-sample loss the graph's backprop yields
LossVals == {FromInt(1)}

\* the sub-batches of one step: every sub-batch sees the gradient g, but for
\* the first `odd` of them, which see the zero gradient
Draws(n) ==
  {Tuple([i \in 1..n |-> IF i <= odd THEN <<l, Zeros(NumParams)>> ELSE <<l, g>>], n) :
     l \in LossVals, g \in GradVecs, odd \in 0..1}

\* ------------------------------------------------------------- state
VARIABLES
  pc,               \* "builder", "built", "loop", "callbacks", "done"
  builder,          \* CainBuilder.initial_learning_rate, .initial_subbatch_size
  config,           \* CainConfig of the builder, then of the Cain
  calls,            \* setters called on the builder
  last_call,        \* <<name, argument>> of the last operation called
  eval_count, step_count,
  curvature_est, learning_rate, batch_size,
  momentum_derivs, prev_derivs,
  step_callback,    \* the registered callbacks, each by its k of StopAfter
  params,           \* optimise_from: the working parameter vector
  err,              \* optimise_from: the loss of the last step
  cb_idx,           \* optimise_from: the position of step_callback.iter_mut()
  ret,              \* what optimise_from returned, <<>> before it returns
  results,          \* step: the (loss, gradient) pairs of the last step
  rel_err,          \* step: what update_batch_size returned
  raw_rel_err,      \* update_batch_size: rel_err of line 220, before the clamp
  sim,              \* step: sim of the last step
  cb_calls,         \* how often each callback was invoked
  invoked,          \* the callbacks invoked since the last step, in order
  signal            \* what the last callback invoked returned

cainVars == <<eval_count, step_count, curvature_est, learning_rate, batch_size,
              momentum_derivs, prev_derivs>>
stepVars == <<results, rel_err, raw_rel_err, sim>>
loopVars == <<params, err, cb_idx, ret, cb_calls, invoked, signal>>
vars == <<pc, builder, config, calls, last_call, cainVars, step_callback,
          stepVars, loopVars>>

\* ------------------------------------------------------------- builder
\* Cain::new
Init ==
  /\ pc = "builder"
  /\ builder = [initial_learning_rate |-> FromInt(1),
                initial_subbatch_size |-> FromInt(2)]
  /\ config = [num_subbatches |-> FromInt(8),
               momentum |-> Lit(9, 10),
               aggression |-> Lit(3, 4),
               target_err |-> Lit(3, 4),
               subbatch_increase_damping |-> Lit(15, 100),
               subbatch_decrease_damping |-> Lit(15, 100),
               rate_adapt_coefficient |-> Lit(105, 100),
               max_eval_batch_size |-> UsizeMax,
               min_subbatch_size |-> 1]
  /\ calls = 0
  /\ last_call = <<"new", 0>>
  /\ eval_count = 0 /\ step_count = 0
  /\ curvature_est = <<>> /\ momentum_derivs = <<>> /\ prev_derivs = <<>>
  /\ learning_rate = 0 /\ batch_size = 0
  /\ step_callback = <<>>
  /\ params = <<>> /\ err = 0 /\ cb_idx = 0 /\ ret = <<>>
  /\ results = <<>> /\ rel_err = 0 /\ raw_rel_err = NaN /\ sim = 0
  /\ cb_calls = <<>> /\ invoked = <<>> /\ signal = "None"

\* a setter of the builder: it is called with val and leaves b, c behind
Setter(name, val, b, c) ==
  /\ pc = "builder"
  /\ calls < MaxBuilderCalls
  /\ calls' = calls + 1
  /\ last_call' = <<name, val>>
  /\ builder' = b
  /\ config' = c
  /\ UNCHANGED <<pc, cainVars, step_callback, stepVars, loopVars>>

num_subbatches ==
  \E val \in NumSubbatchesVals :
    Setter("num_subbatches", val, builder,
           [config EXCEPT !.num_subbatches = Max(FromInt(val), FromInt(2))])

momentum ==
  \E val \in MomentumVals :
    Setter("momentum", val, builder, [config EXCEPT !.momentum = val])

aggression ==
  \E val \in AggressionVals :
    Setter("aggression", val, builder, [config EXCEPT !.aggression = val])

target_err ==
  \E val \in TargetErrVals :
    Setter("target_err", val, builder, [config EXCEPT !.target_err = val])

subbatch_increase_damping ==
  \E val \in IncreaseDampingVals :
    Setter("subbatch_increase_damping", val, builder,
           [config EXCEPT !.subbatch_increase_damping = val])

subbatch_decrease_damping ==
  \E val \in DecreaseDampingVals :
    Setter("subbatch_decrease_damping", val, builder,
           [config EXCEPT !.subbatch_increase_damping = val])

rate_adapt_coefficient ==
  \E val \in RateAdaptVals :
    Setter("rate_adapt_coefficient", val, builder,
           [config EXCEPT !.rate_adapt_coefficient = val])

max_eval_batch_size ==
  \E val \in MaxEvalVals :
    Setter("max_eval_batch_size", val, builder,
           [config EXCEPT !.max_eval_batch_size = val])

min_subbatch_size ==
  \E val \in MinSubbatchVals :
    Setter("min_subbatch_size", val,
           IF FromInt(val) > builder.initial_subbatch_size
             THEN [builder EXCEPT !.initial_subbatch_size = FromInt(val)]
             ELSE builder,
           [config EXCEPT !.min_subbatch_size = val])

initial_learning_rate ==
  \E val \in LearningRateVals :
    Setter("initial_learning_rate", val,
           [builder EXCEPT !.initial_learning_rate = val], config)

initial_subbatch_size ==
  \E val \in SubbatchSizeVals :
    Setter("initial_subbatch_size", val,
           [builder EXCEPT !.initial_subbatch_size = val], config)

\* Vec::with_capacity(num_params) in place of vec![0.0; num_params]
StateVec_WithCapacity(num_params) == <<>>

\* finish: vec![0.0; num_params]
StateVec(num_params) == Zeros(num_params)

\* CainBuilder::finish
finish ==
  /\ pc = "builder"
  /\ pc' = "built"
  /\ last_call' = <<"finish", 0>>
  /\ eval_count' = 0
  /\ step_count' = 0
  /\ curvature_est' = StateVec(NumParams)
  /\ learning_rate' = builder.initial_learning_rate
  /\ batch_size' = builder.initial_subbatch_size
  /\ momentum_derivs' = StateVec(NumParams)
  /\ prev_derivs' = StateVec(NumParams)
  /\ step_callback' = <<>>
  /\ UNCHANGED <<builder, config, calls, stepVars, loopVars>>

\* ------------------------------------------------------------- Cain
\* Optimiser::add_boxed_step_callback
add_boxed_step_callback ==
  \E func \in StopAfter :
    /\ pc = "built"
    /\ Len(step_callback) < MaxCallbacks
    /\ step_callback' = Append(step_callback, func)
    /\ cb_calls' = Append(cb_calls, 0)
    /\ last_call' = <<"add_boxed_step_callback", func>>
    /\ UNCHANGED <<pc, builder, config, calls, cainVars, stepVars,
                   params, err, cb_idx, ret, invoked, signal>>

\* Graph::backprop: the loss and the gradient summed over the batch_size
\* samples of the batch, each sample yielding sample = <<loss, gradient>>
backprop(b, sample) ==
  <<sample[1] * b, Tuple([i \in 1..Len(sample[2]) |-> sample[2][i] * b], Len(sample[2]))>>

\* Cain::part_step, its return value
part_step(b, sample) ==
  LET out == backprop(b, sample)
  IN <<Div(out[1], FromInt(b)), ScaleVec(out[2], Div(Scale, FromInt(b)))>>

\* part_step counting its calls instead of the samples it drew
part_step_count_calls(ec, b) == ec + 1

\* Cain::part_step, its effect on eval_count
part_step_count(ec, b) == ec + b

RECURSIVE part_steps_count(_, _, _)
\* eval_count after the k calls of part_step that step makes
part_steps_count(ec, k, b) ==
  IF k = 0 THEN ec ELSE part_step_count(part_steps_count(ec, k - 1, b), b)

\* update_batch_size: the hold-one-out term of one sub-batch
HoldOneOut(n, mean, derivs) ==
  LET P == Len(mean)
      h == Tuple([i \in 1..P |-> Div(Mul(mean[i] - Div(derivs[i], n), n), n - Scale)], P)
      diff == Tuple([i \in 1..P |-> derivs[i] - h[i]], P)
      diff_dot == Dot(diff, diff)
      mean_dot == Dot(h, h)
  IN XDiv(diff_dot, Mul(mean_dot, n))

RECURSIVE RelVar(_, _, _, _)
\* update_batch_size: rel_var, the fold over the first k sub-batches
RelVar(n, mean, res, k) ==
  IF k = 0 THEN Fin(0)
  ELSE XAdd(RelVar(n, mean, res, k - 1), HoldOneOut(n, mean, res[k][2]))

\* update_batch_size: rel_err of line 220
RawRelErr(cfg, mean, res) ==
  LET n == cfg.num_subbatches
      rel_var == RelVar(n, mean, res, Len(res))
  IN IF rel_var[1] = "fin"
       THEN Fin(Div(Sqrt(Div(rel_var[2], n)), cfg.target_err))
       ELSE rel_var

\* update_batch_size: rel_err of line 252
ClampRelErr(raw) == XClamp(raw, Lit(1, 8), FromInt(1000))

\* update_batch_size shrinking nothing: the decrease branch left out
BatchFactor_NoDecrease(cfg, clamped) ==
  IF clamped > Scale
    THEN PowF(clamped, cfg.subbatch_increase_damping)
    ELSE Scale

\* update_batch_size: the factor batch_size is multiplied by
BatchFactor(cfg, clamped) ==
  IF clamped > Scale
    THEN PowF(clamped, cfg.subbatch_increase_damping)
    ELSE PowF(clamped, cfg.subbatch_decrease_damping)

\* update_batch_size without the floor of line 258
FloorBatchSize_None(cfg, bs) == bs

\* update_batch_size: the floor of line 258
FloorBatchSize(cfg, bs) == Max(bs, FromInt(cfg.min_subbatch_size))

\* update_batch_size returning the rel_err of line 220 where it is a number
ReturnedRelErr_Raw(raw, clamped) == IF raw[1] = "fin" THEN raw[2] ELSE clamped

\* update_batch_size: the value returned
ReturnedRelErr(raw, clamped) == clamped

\* Cain::update_batch_size
update_batch_size(cfg, bs, mean, res) ==
  LET raw == RawRelErr(cfg, mean, res)
      clamped == ClampRelErr(raw)
  IN [batch_size |-> FloorBatchSize(cfg, Mul(bs, BatchFactor(cfg, clamped))),
      raw |-> raw,
      rel_err |-> ReturnedRelErr(raw, clamped)]

\* curv_decay of update_curvature and of step
CurvDecay(cfg) == Max(PowF(cfg.momentum, Lit(1, 4)), Lit(9, 10))

\* Cain::update_curvature
update_curvature(cfg, curv, momen, mean) ==
  LET curv_decay == CurvDecay(cfg)
      scaled == ScaleVec(curv, curv_decay)
  IN Tuple([i \in 1..Len(mean) |-> LET diff == mean[i] - momen[i]
           IN scaled[i] + Mul(Mul(diff, diff), Scale - curv_decay)], Len(mean))

\* step computing sim from the momentum on the first step as on every other
Sim_NoFirstStep(cfg, steps, mean, momen) ==
  LET q == XDiv(Dot(mean, momen), Dot(momen, momen))
      a == IF q[1] = "fin" THEN Fin(cfg.aggression + q[2]) ELSE q
  IN XClamp(a, FromInt(-8), FromInt(4))

\* step: sim
Sim(cfg, steps, mean, momen) ==
  IF steps = 0 THEN 0
  ELSE LET q == XDiv(Dot(mean, momen), Dot(momen, momen))
           a == IF q[1] = "fin" THEN Fin(cfg.aggression + q[2]) ELSE q
       IN XClamp(a, FromInt(-8), FromInt(4))

\* step: the steps up to which the curvature estimate is bias-corrected
CorrectionSteps == 1000000

\* step: 1e-8
Epsilon == Lit(1, 100000000)

\* step: one element of cond_derivs.  1e-8 is below the resolution of the
\* fixed point, so the divisor is 0 only where the curvature estimate is 0; the
\* momentum is then 0 as well and the code's quotient 0/1e-8 is 0.
CondDeriv(m, c, correction) ==
  LET den == Sqrt(Mul(c, correction)) + Epsilon
  IN IF den = 0 THEN 0 ELSE Div(m, den)

\* Cain::step on the sub-batch samples `draw`: the state it leaves and the
\* values it returns
step(p, draw) ==
  LET cfg == config
      batch_ceil == Floor(batch_size)
      n == Floor(cfg.num_subbatches)
      res == Tuple([i \in 1..n |-> part_step(batch_ceil, draw[i])], n)
      e == Div(SumTo(Tuple([i \in 1..n |-> res[i][1]], n), n), cfg.num_subbatches)
      total == Tuple([j \in 1..Len(p) |-> SumTo(Tuple([i \in 1..n |-> res[i][2][j]], n), n)], Len(p))
      mean == ScaleVec(total, Div(Scale, cfg.num_subbatches))
      ubs == update_batch_size(cfg, batch_size, mean, res)
      curv == update_curvature(cfg, curvature_est, momentum_derivs, mean)
      s == Sim(cfg, step_count, mean, momentum_derivs)
      new_rate == Mul(learning_rate, PowF(cfg.rate_adapt_coefficient, s))
      momen == AddVec(ScaleVec(momentum_derivs, cfg.momentum),
                      ScaleVec(mean, Scale - cfg.momentum))
      curv_decay == CurvDecay(cfg)
      correction == IF step_count < CorrectionSteps
                      THEN Div(Scale, Scale - PowI(curv_decay, step_count + 1))
                      ELSE Scale
      cond_derivs == Tuple([i \in 1..Len(p) |-> CondDeriv(momen[i], curv[i], correction)], Len(p))
      change == ScaleVec(cond_derivs, -new_rate)
  IN [eval_count |-> part_steps_count(eval_count, n, batch_ceil),
      results |-> res,
      batch_size |-> ubs.batch_size,
      raw_rel_err |-> ubs.raw,
      rel_err |-> ubs.rel_err,
      curvature_est |-> curv,
      sim |-> s,
      learning_rate |-> new_rate,
      momentum_derivs |-> momen,
      step_count |-> step_count + 1,
      prev_derivs |-> mean,
      err |-> e,
      new_params |-> AddVec(change, p)]

\* the parameter vectors a client starts optimise_from with
InitParams == {Zeros(NumParams)}

\* Optimiser::optimise_from, its entry
optimise_from ==
  \E p \in InitParams :
    /\ pc = "built"
    /\ pc' = "loop"
    /\ params' = p
    /\ last_call' = <<"optimise_from", 0>>
    /\ UNCHANGED <<builder, config, calls, cainVars, step_callback, stepVars,
                   err, cb_idx, ret, cb_calls, invoked, signal>>

\* optimise_from: the call of step at the head of the loop, up to the first
\* callback
LoopStep ==
  /\ pc = "loop"
  /\ step_count < MaxSteps
  /\ \E draw \in Draws(Floor(config.num_subbatches)) :
       \E r \in {step(params, draw)} :
          /\ eval_count' = r.eval_count
          /\ step_count' = r.step_count
          /\ curvature_est' = r.curvature_est
          /\ learning_rate' = r.learning_rate
          /\ batch_size' = r.batch_size
          /\ momentum_derivs' = r.momentum_derivs
          /\ prev_derivs' = r.prev_derivs
          /\ results' = r.results
          /\ rel_err' = r.rel_err
          /\ raw_rel_err' = r.raw_rel_err
          /\ sim' = r.sim
          /\ err' = r.err
          /\ params' = r.new_params
  /\ cb_idx' = 1
  /\ invoked' = <<>>
  /\ pc' = IF step_callback = <<>> THEN "loop" ELSE "callbacks"
  /\ last_call' = <<"step", 0>>
  /\ UNCHANGED <<builder, config, calls, step_callback, ret, cb_calls, signal>>

\* a step callback registered as func, called with data
Callback(func, data) ==
  IF data.step_count >= func THEN "Stop" ELSE "Continue"

\* optimise_from finishing the round of callbacks before it honours a Stop
AfterCallback_FinishRound(sig) ==
  IF cb_idx < Len(step_callback) THEN "callbacks"
  ELSE IF sig = "Stop" THEN "done" ELSE "loop"

\* optimise_from taking no notice of Stop
AfterCallback_IgnoreStop(sig) ==
  IF cb_idx = Len(step_callback) THEN "loop" ELSE "callbacks"

\* optimise_from: where the loop goes after the callback at cb_idx returned sig
AfterCallback(sig) ==
  IF sig = "Stop" THEN "done"
  ELSE IF cb_idx = Len(step_callback) THEN "loop" ELSE "callbacks"

\* optimise_from: one turn of the loop over step_callback
LoopCallback ==
  /\ pc = "callbacks"
  /\ LET data == [err |-> err, step_count |-> step_count,
                  eval_count |-> eval_count, params |-> params]
         sig == Callback(step_callback[cb_idx], data)
     IN /\ signal' = sig
        /\ pc' = AfterCallback(sig)
        /\ ret' = IF AfterCallback(sig) = "done" THEN params ELSE ret
  /\ cb_calls' = [cb_calls EXCEPT ![cb_idx] = @ + 1]
  /\ invoked' = Append(invoked, cb_idx)
  /\ cb_idx' = cb_idx + 1
  /\ last_call' = <<"callback", cb_idx>>
  /\ UNCHANGED <<builder, config, calls, cainVars, step_callback, stepVars,
                 params, err>>

Next ==
  \/ num_subbatches
  \/ momentum
  \/ aggression
  \/ target_err
  \/ subbatch_increase_damping
  \/ subbatch_decrease_damping
  \/ rate_adapt_coefficient
  \/ max_eval_batch_size
  \/ min_subbatch_size
  \/ initial_learning_rate
  \/ initial_subbatch_size
  \/ finish
  \/ add_boxed_step_callback
  \/ optimise_from
  \/ LoopStep
  \/ LoopCallback

Spec == Init /\ [][Next]_vars

\* ------------------------------------------------------------- claims
Registered == 1..Len(step_callback)

\* what the callback registered at i returns in the round after step k
SignalAt(i, k) ==
  Callback(step_callback[i],
           [err |-> err, step_count |-> k, eval_count |-> eval_count,
            params |-> params])

\* C1 as stated: once a round of callbacks is over (the loop is back at its
\* head, or optimise_from has returned), every registered callback has been
\* invoked once for every step, the round of a Stop included.
C1_EveryCallbackEveryRound ==
  pc \in {"loop", "done"} => \A i \in Registered : cb_calls[i] = step_count

\* C1 amended: after every step the callbacks are invoked in registration
\* order, each at most once; the first callback to return Stop ends the round
\* and the loop: the callbacks registered after it are not invoked in that
\* round, those before it were invoked and returned Continue.
C1_CallbacksUpToFirstStop ==
  /\ invoked = Tuple([i \in 1..Len(invoked) |-> i], Len(invoked))
  /\ Len(invoked) <= Len(step_callback)
  /\ \A i \in Registered :
       cb_calls[i] = IF i <= Len(invoked) \/ step_count = 0
                       THEN step_count ELSE step_count - 1
  /\ pc = "callbacks" =>
       /\ cb_idx = Len(invoked) + 1
       /\ \A i \in 1..Len(invoked) : SignalAt(i, step_count) = "Continue"
  /\ pc = "loop" /\ step_count > 0 =>
       /\ Len(invoked) = Len(step_callback)
       /\ \A i \in Registered : SignalAt(i, step_count) = "Continue"
  /\ pc = "done" =>
       /\ Len(invoked) >= 1
       /\ SignalAt(Len(invoked), step_count) = "Stop"
       /\ \A i \in 1..(Len(invoked) - 1) : SignalAt(i, step_count) = "Continue"

\* C1 witness: optimise_from has returned on a Stop of a callback that is not
\* the last one registered
C1_StopBeforeLastCallback ==
  pc = "done" /\ Len(invoked) < Len(step_callback)

\* C2: optimise_from has returned exactly when the last callback invoked
\* returned Stop; it then returns the parameters of the last step, which is the
\* first step after which some callback returns Stop (step 1 when a callback
\* stops on its first invocation); with no callback registered it never
\* returns.
C2_ReturnsExactlyOnStop ==
  /\ (pc = "done") <=> (signal = "Stop")
  /\ pc # "done" => ret = <<>>
  /\ step_callback = <<>> => pc # "done"
  /\ pc = "done" =>
       /\ ret = params
       /\ step_count >= 1
       /\ \E i \in Registered : SignalAt(i, step_count) = "Stop"
       /\ \A k \in 1..(step_count - 1) :
            \A i \in Registered : SignalAt(i, k) = "Continue"
       /\ (\E i \in Registered : SignalAt(i, 1) = "Stop") => step_count = 1
  /\ pc \in {"loop", "callbacks"} =>
       \A k \in 1..(step_count - 1) :
         \A i \in Registered : SignalAt(i, k) = "Continue"

\* C2 witness: optimise_from has returned after the second step, the first
\* round of callbacks having returned Continue only
C2_ReturnedAfterSecondStep ==
  pc = "done" /\ step_count = 2 /\ ret = params /\ Len(ret) = NumParams

\* what a setter called with val leaves in its own config field
Assigned(name, val) ==
  IF name = "num_subbatches" THEN Max(FromInt(val), FromInt(2)) ELSE val

\* C3 as stated: a setter of the builder sets the config field of its name to
\* its argument and leaves every other config field as it was.
C3_SetterChangesOwnFieldOnly ==
  [][calls' = calls + 1 =>
       \A f \in DOMAIN config :
         config'[f] = IF f = last_call'[1]
                        THEN Assigned(last_call'[1], last_call'[2])
                        ELSE config[f]]_vars

\* C4: once a step has completed, batch_size is at least min_subbatch_size.
C4_BatchSizeAtLeastMin ==
  step_count >= 1 => batch_size >= FromInt(config.min_subbatch_size)

\* C4 witness: a step that shrank the batch size and was stopped by the floor
C4_FloorEngaged ==
  /\ step_count >= 1
  /\ rel_err < Scale
  /\ batch_size = FromInt(config.min_subbatch_size)
  /\ config.min_subbatch_size > 1

\* C5 as stated: the optimiser finish() builds has batch_size >=
\* min_subbatch_size, and so has the sub-batch size the first step draws.
C5_BuiltBatchSizeAtLeastMin ==
  pc # "builder" /\ step_count = 0 =>
    /\ batch_size >= FromInt(config.min_subbatch_size)
    /\ Floor(batch_size) >= config.min_subbatch_size

\* C6: step_count and eval_count never decrease; a step adds 1 to step_count
\* and num_subbatches * floor(batch_size) to eval_count, batch_size being the
\* one the step started with; nothing else changes either counter.
C6_Counters ==
  [][/\ step_count' >= step_count
     /\ eval_count' >= eval_count
     /\ step_count' # step_count =>
          /\ step_count' = step_count + 1
          /\ eval_count' =
               eval_count + Floor(config.num_subbatches) * Floor(batch_size)
     /\ step_count' = step_count => eval_count' = eval_count]_vars

\* C6 witness: two steps have run and the second drew sub-batches of another
\* size than the first
C6_TwoStepsTwoSizes ==
  /\ step_count = 2
  /\ eval_count # 2 * Floor(config.num_subbatches) * Floor(builder.initial_subbatch_size)

\* the sub-batches of the last step all saw the same gradient
ZeroNoise(res) == res # <<>> /\ \A i \in 1..Len(res) : res[i][2] = res[1][2]

\* C7 as stated: a step whose sub-batch gradients are all the same has a
\* rel_err of 0 before the clamp and leaves batch_size strictly smaller.
C7_ZeroNoiseShrinks ==
  [][step_count' = step_count + 1 /\ ZeroNoise(results') =>
       /\ raw_rel_err' = Fin(0)
       /\ batch_size' < batch_size]_vars

\* C7 amended: with all sub-batch gradients the same, rel_err before the clamp
\* is 0 when that gradient is not zero and NaN (0/0) when it is, and 0.125 after
\* it; batch_size becomes strictly smaller if it was above min_subbatch_size,
\* never less than min_subbatch_size, and min_subbatch_size itself if it was
\* at or below it.
C7_ZeroNoiseShrinksToFloor ==
  [][step_count' = step_count + 1 /\ ZeroNoise(results') =>
       LET min == FromInt(config.min_subbatch_size)
       IN /\ raw_rel_err' =
               IF results'[1][2] = Zeros(NumParams) THEN NaN ELSE Fin(0)
          /\ rel_err' = Lit(1, 8)
          /\ batch_size' >= min
          /\ batch_size > min => batch_size' < batch_size
          /\ batch_size <= min => batch_size' = min]_vars

\* C7 witness: a zero-noise step, with a gradient that is not zero, taken from
\* a batch_size equal to min_subbatch_size
C7_ZeroNoiseAtFloor ==
  /\ step_count = 2
  /\ ZeroNoise(results)
  /\ raw_rel_err = Fin(0)
  /\ batch_size = FromInt(config.min_subbatch_size)
  /\ builder.initial_subbatch_size = FromInt(config.min_subbatch_size)

\* C8 as stated: update_batch_size returns the rel_err it computed before the
\* clamp.
C8_ReturnsUnclamped ==
  step_count >= 1 => raw_rel_err = Fin(rel_err)

\* C8 amended: update_batch_size returns the clamped rel_err: a value in
\* [0.125, 1000], the rel_err before the clamp where that lies in the range,
\* 0.125 where it is less or NaN, 1000 where it is more.
C8_ReturnsClamped ==
  step_count >= 1 =>
    /\ rel_err >= Lit(1, 8)
    /\ rel_err <= FromInt(1000)
    /\ raw_rel_err[1] = "fin" =>
         /\ raw_rel_err[2] < Lit(1, 8) => rel_err = Lit(1, 8)
         /\ raw_rel_err[2] > FromInt(1000) => rel_err = FromInt(1000)
         /\ raw_rel_err[2] \in Lit(1, 8)..FromInt(1000) => rel_err = raw_rel_err[2]
    /\ raw_rel_err[1] = "nan" => rel_err = Lit(1, 8)
    /\ raw_rel_err[1] = "inf" => rel_err = FromInt(1000)

\* C8 witness: a step whose rel_err before the clamp was a number below 0.125
C8_RawBelowRange ==
  /\ step_count >= 1
  /\ raw_rel_err[1] = "fin"
  /\ raw_rel_err[2] < Lit(1, 8)
  /\ rel_err = Lit(1, 8)

\* C9: right after finish() the momentum, curvature and previous-gradient
\* vectors have the graph's parameter count as length and are zero throughout,
\* both counters are 0 and no callback is registered.
C9_FreshState ==
  last_call[1] = "finish" =>
    /\ \A v \in {momentum_derivs, curvature_est, prev_derivs} :
         /\ Len(v) = NumParams
         /\ \A i \in 1..Len(v) : v[i] = 0
    /\ step_count = 0
    /\ eval_count = 0
    /\ step_callback = <<>>

\* C9 witness: finish() called on a builder whose setters were used
C9_FinishedAfterSetters ==
  last_call[1] = "finish" /\ calls = MaxBuilderCalls /\ pc = "built"

\* C11: a step multiplies learning_rate by rate_adapt_coefficient^sim; on the
\* first step sim is 0 and learning_rate stays the initial learning rate; on
\* every later step sim lies in [-8, 4], and with rate_adapt_coefficient > 1
\* the new learning rate lies between learning_rate * rate_adapt_coefficient^-8
\* and learning_rate * rate_adapt_coefficient^4.
C11_RateAdaptation ==
  [][step_count' = step_count + 1 =>
       LET coeff == config.rate_adapt_coefficient
       IN /\ learning_rate' = Mul(learning_rate, PowF(coeff, sim'))
          /\ step_count = 0 =>
               /\ sim' = 0
               /\ learning_rate' = learning_rate
               /\ learning_rate' = builder.initial_learning_rate
          /\ step_count > 0 =>
               /\ sim' >= FromInt(-8)
               /\ sim' <= FromInt(4)
          /\ coeff > Scale =>
               /\ learning_rate' >= Mul(learning_rate, PowF(coeff, FromInt(-8)))
               /\ learning_rate' <= Mul(learning_rate, PowF(coeff, FromInt(4)))]_vars

\* C11 witness: a later step whose sim was held at the lower end of the range
\* and which lowered the learning rate
C11_SimAtLowerEnd ==
  /\ step_count >= 2
  /\ sim = FromInt(-8)
  /\ config.rate_adapt_coefficient > Scale
  /\ learning_rate < builder.initial_learning_rate

====
